---- MODULE Spec2Model ----
(***************************************************************************)
(* Model of cosmos_transfer1/utils/fused_adam.py: the FusedAdam optimizer  *)
(* wrapper.  The model covers the Python-visible bookkeeping: argument     *)
(* validation, the per-group step counter, lazy creation of the moment     *)
(* buffers, bucketing of parameters by precision, the gradient-scaler      *)
(* interaction and the dispatch to the native multi-tensor entry points.   *)
(* The native kernels themselves are opaque: a launch is recorded in the   *)
(* trace of the call and turns the content of the moment buffers it was    *)
(* handed from "zeros" to "data" (updated in place).                       *)
(***************************************************************************)
EXTENDS Integers, Sequences, FiniteSets, TLC

VARIABLES
    phase,                \* "new", "ready" (constructed) or "ctor_error"
    ctor,                 \* the arguments of the constructor call
    capturable,           \* self.capturable
    master_weights,       \* self.master_weights
    adam_w_mode,          \* self.adam_w_mode (0 or 1)
    param_groups,         \* self.param_groups: sequence of group records
    pstate,               \* self.state: per parameter, the moment buffers
    param_groups_master,  \* self.param_groups_master
    dummy_overflow_buf,   \* self._dummy_overflow_buf (0 or 1)
    pdtype,               \* dtype of every parameter
    call,                 \* the last call: its arguments and its outcome
    trace,                \* what the last call did, in order
    hist                  \* bookkeeping of the call history

vars == << phase, ctor, capturable, master_weights, adam_w_mode, param_groups,
           pstate, param_groups_master, dummy_overflow_buf, pdtype, call,
           trace, hist >>

----------------------------------------------------------------------------
(* Bounds and input domains *)

\* The step counter of a group is allowed to grow up to this value.
MaxStep == 2

Params == 1 .. 3

Devices == {"cuda:0", "cuda:1"}

\* Device of every parameter (p.device); the first parameter of a group
\* gives the device of the group.
pdevice == [p \in Params |-> IF p = 3 THEN "cuda:1" ELSE "cuda:0"]

\* Dtype assignments of the three parameters offered to the constructor.
DtypeChoices ==
    { << "float16", "bfloat16", "float32" >>,
      << "float32", "float32", "float64" >> }

\* The param groups handed to the constructor: two groups with parameters
\* and one with an empty parameter list, each with its own hyperparameters
\* (small integers stand for the floating-point values).
GroupArgs ==
    << [params |-> << 1, 2 >>, lr |-> 1, bias_correction |-> TRUE,
        beta1 |-> 9, beta2 |-> 99, eps |-> 8, weight_decay |-> 0],
       [params |-> << >>, lr |-> 2, bias_correction |-> TRUE,
        beta1 |-> 8, beta2 |-> 98, eps |-> 7, weight_decay |-> 1],
       [params |-> << 3 >>, lr |-> 3, bias_correction |-> FALSE,
        beta1 |-> 7, beta2 |-> 97, eps |-> 6, weight_decay |-> 2] >>

DeprecatedArgs == {"grads", "output_params", "scale", "grad_norms"}

\* The sets of deprecated arguments a step() call may set: none, any one
\* of them, all of them.
DeprecatedChoices ==
    { {} } \cup { {a} : a \in DeprecatedArgs } \cup { DeprecatedArgs }

\* p.grad of a parameter when step() is called.
GradKinds == {"None", "dense", "sparse"}

\* The gradients of the three parameters offered to step().
GradChoices ==
    { g \in [Params -> GradKinds] :
        g \in { << "None", "None", "None" >>, << "dense", "dense", "dense" >>,
                << "None", "dense", "dense" >>, << "dense", "dense", "None" >>,
                << "sparse", "dense", "dense" >>,
                << "dense", "dense", "sparse" >> } }

NoScaler == [some |-> FALSE, found_inf |-> [d \in Devices |-> 0], scale |-> 1]

\* A grad_scaler argument: None, or a scaler with its per-device found_inf
\* flags and its current scale.
GradScalers ==
    { NoScaler,
      [some |-> TRUE, scale |-> 2,
       found_inf |-> [d \in Devices |-> IF d = "cuda:0" THEN 0 ELSE 1]],
      [some |-> TRUE, scale |-> 4,
       found_inf |-> [d \in Devices |-> IF d = "cuda:0" THEN 1 ELSE 0]] }

\* A checkpoint handed to load_state_dict: whether a capturable optimizer
\* wrote it (lr and step are then tensors), the step of its groups (0: the
\* groups have no step entry) and the parameters it holds moments for.
Checkpoints ==
    [from_capturable : BOOLEAN, step : 0 .. MaxStep,
     moments : { {}, {1}, {1, 2, 3} }]

NoCheckpoint == [from_capturable |-> FALSE, step |-> 0, moments |-> {}]

\* What load_state_dict learns from the process group when capturable: the
\* rank of this process and the step tensor held by rank 0.
RankInputs == { << 0, 0 >>, << 1, 1 >> }

NoneStep == [kind |-> "none", val |-> 0, dev |-> ""]
IntStep(n) == [kind |-> "int", val |-> n, dev |-> ""]
TensorStep(n, d) == [kind |-> "tensor", val |-> n, dev |-> d]

FloatLr(v) == [kind |-> "float", val |-> v, dev |-> ""]
TensorLr(v, d) == [kind |-> "tensor", val |-> v, dev |-> d]

\* A tensor of optimizer state: its dtype and what is known of its content
\* ("zeros" as created, "data" once loaded from a checkpoint or handed to a
\* kernel, which updates it in place).
NoBuf == [dtype |-> "", content |-> ""]
Buf(dt, c) == [dtype |-> dt, content |-> c]

\* A per-parameter state dict: the keys it holds and their values.
EmptyState == [keys |-> {}, exp_avg |-> NoBuf, exp_avg_sq |-> NoBuf]

\* History of the calls made on the optimizer since its construction, kept
\* until the first load_state_dict: the number of step() calls that
\* returned and whether a step() call raised after it had begun its loop
\* over the groups; and whether load_state_dict was called.
\* seen: the parameters a step() has processed with a gradient, that is,
\* taken past the sparse check to the state initialization; seen_since_load:
\* those among them processed since the last load_state_dict.
NoHist == [ok_steps |-> 0, failed |-> FALSE, loaded |-> FALSE,
           seen |-> {}, seen_since_load |-> {}]

NoCall == [op |-> "none", raised |-> "", deprecated |-> {}, closure |-> FALSE,
           scaler |-> NoScaler, grads |-> [p \in Params |-> "None"],
           ckpt |-> NoCheckpoint, rank |-> 0]

----------------------------------------------------------------------------
(* __init__ *)

\* __init__ without the check of master_weights against capturable.
CtorError_NoMasterCheck(amsgrad, cap, mw, available) ==
    IF amsgrad THEN "RuntimeError:amsgrad"
    ELSE IF ~available THEN "RuntimeError:cuda_ext"
    ELSE ""

\* The checks of __init__ in source order; "" when construction succeeds.
CtorError(amsgrad, cap, mw, available) ==
    IF amsgrad THEN "RuntimeError:amsgrad"
    ELSE IF mw /\ ~cap THEN "RuntimeError:master_weights"
    ELSE IF ~available THEN "RuntimeError:cuda_ext"
    ELSE ""

\* The lr of a group after __init__: a tensor on the group's device when
\* capturable (a group without parameters is skipped and keeps its float).
CtorLr(g, cap) ==
    IF ~cap \/ Len(g.params) = 0 THEN FloatLr(g.lr)
    ELSE TensorLr(g.lr, pdevice[g.params[1]])

CtorGroup(g, cap) ==
    [params |-> g.params, lr |-> CtorLr(g, cap),
     bias_correction |-> g.bias_correction, beta1 |-> g.beta1,
     beta2 |-> g.beta2, eps |-> g.eps, weight_decay |-> g.weight_decay,
     step |-> NoneStep]

\* __init__ called with adam_w_mode drawn from awms.
ConstructOf(awms) ==
    /\ phase = "new"
    /\ \E amsgrad \in BOOLEAN, cap \in BOOLEAN, mw \in BOOLEAN,
          available \in BOOLEAN, awm \in awms, dts \in DtypeChoices :
        LET err == CtorError(amsgrad, cap, mw, available) IN
        /\ ctor' = [amsgrad |-> amsgrad, capturable |-> cap,
                    master_weights |-> mw, available |-> available,
                    adam_w_mode |-> awm]
        /\ IF err # ""
           THEN /\ phase' = "ctor_error"
                /\ call' = [NoCall EXCEPT !.op = "init", !.raised = err]
                /\ UNCHANGED << capturable, master_weights, adam_w_mode,
                                param_groups, pstate, pdtype >>
           ELSE /\ phase' = "ready"
                /\ call' = [NoCall EXCEPT !.op = "init"]
                /\ capturable' = cap
                /\ master_weights' = mw
                /\ adam_w_mode' = IF awm THEN 1 ELSE 0
                /\ param_groups' =
                       [i \in 1 .. Len(GroupArgs) |-> CtorGroup(GroupArgs[i], cap)]
                /\ pstate' = [p \in Params |-> EmptyState]
                /\ pdtype' = [p \in Params |-> dts[p]]
        /\ UNCHANGED << param_groups_master, dummy_overflow_buf, trace, hist >>

----------------------------------------------------------------------------
(* step() *)

\* A check of the deprecated arguments that looks at grads alone.
DeprecatedError_OnlyGrads(dep) == "grads" \in dep

\* The check of the deprecated arguments: dep is the set of those that are
\* not None.
DeprecatedError(dep) == dep # {}

\* self.param_groups_master as built by the first step(): per parameter a
\* float32 clone when master_weights is on, None otherwise.
MakeMaster(groups, mw) ==
    [made |-> TRUE,
     groups |-> [i \in 1 .. Len(groups) |->
                    [k \in 1 .. Len(groups[i].params) |->
                        IF mw THEN [t |-> "master", p |-> groups[i].params[k],
                                    dtype |-> "float32"]
                        ELSE [t |-> "None", p |-> 0, dtype |-> ""]]]]

\* bias_correction as passed to the kernels.
BiasFlag(group) == IF group.bias_correction THEN 1 ELSE 0

\* The step counter of a group at the start of its turn in step().
NextStep(step, cap, buf, device) ==
    IF step.kind # "none"
    THEN IF cap
         THEN TensorStep(step.val + (IF buf # 1 THEN 1 ELSE 0), device)
         ELSE [step EXCEPT !.val = step.val + 1]
    ELSE IF cap THEN TensorStep(1, device) ELSE IntStep(1)

\* group["lr"] at the start of the group's turn: moved to the group's device
\* when capturable.
StepLr(lr, cap, device) ==
    IF cap THEN TensorLr(lr.val, device) ELSE lr

\* A state initialization that runs on every step.
NeedsInit_Always(st) == TRUE

\* State initialization: the tensors created for a parameter whose state is
\* empty.
NeedsInit(st) == st.keys = {}

InitMoments(st) ==
    IF NeedsInit(st)
    THEN [keys |-> {"exp_avg", "exp_avg_sq"},
          exp_avg |-> Buf("float32", "zeros"),
          exp_avg_sq |-> Buf("float32", "zeros")]
    ELSE st

\* Bucketing that knows float16 and float32 alone.
BucketOf_NoBfloat16(dt) ==
    IF dt = "float16" THEN "float16"
    ELSE IF dt = "float32" THEN "float32"
    ELSE ""

\* The precision bucket of a parameter's dtype; "" when it has none.
BucketOf(dt) ==
    IF dt = "float16" THEN "float16"
    ELSE IF dt = "bfloat16" THEN "bfloat16"
    ELSE IF dt = "float32" THEN "float32"
    ELSE ""

BucketNames == << "float16", "bfloat16", "float32" >>

EmptyBucket == [g |-> << >>, p |-> << >>, m |-> << >>, v |-> << >>,
                master |-> << >>]

EmptyBuckets == [b \in {"float16", "bfloat16", "float32"} |-> EmptyBucket]

\* A tensor as it stands in a list handed to a kernel: what it is (t), the
\* parameter it belongs to (p) and, for a moment buffer, its content when
\* it was put in the list.
Ref(t, p, c) == [t |-> t, p |-> p, content |-> c]

\* Appending one parameter to the parallel lists of a bucket.
AppendParam(b, p, pm, st, mw) ==
    [g |-> Append(b.g, Ref("grad", p, "")),
     p |-> Append(b.p, Ref("param", p, "")),
     m |-> Append(b.m, Ref("exp_avg", p, st.exp_avg.content)),
     v |-> Append(b.v, Ref("exp_avg_sq", p, st.exp_avg_sq.content)),
     master |-> IF mw THEN Append(b.master, Ref(pm.t, pm.p, ""))
                ELSE b.master]

\* The loop over the parameters of a group, from index k on: acc holds the
\* state dicts (st), the buckets (bk), the parameters processed (seen) and
\* the error raised, if any (err).
RECURSIVE Gather(_, _, _, _, _, _)
Gather(acc, params, masters, k, grads, mw) ==
    IF k > Len(params) \/ acc.err # "" THEN acc
    ELSE LET p == params[k] IN
         IF grads[p] = "None"
         THEN Gather(acc, params, masters, k + 1, grads, mw)
         ELSE IF grads[p] = "sparse"
         THEN [acc EXCEPT !.err = "RuntimeError:sparse"]
         ELSE LET st1 == [acc.st EXCEPT ![p] = InitMoments(acc.st[p])]
                  b == BucketOf(pdtype[p])
                  acc1 == [acc EXCEPT !.st = st1, !.seen = acc.seen \cup {p}]
              IN IF b = ""
                 THEN [acc1 EXCEPT !.err = "RuntimeError:dtype"]
                 ELSE Gather([acc1 EXCEPT !.bk[b] =
                                  AppendParam(acc.bk[b], p, masters[k],
                                              st1[p], mw)],
                             params, masters, k + 1, grads, mw)

\* A dispatch that forgets the master-weights entry point.
KernelFor_NeverMaster(cap, mw) ==
    IF cap THEN "multi_tensor_adam_capturable" ELSE "multi_tensor_adam"

\* The native entry point chosen by the flags.
KernelFor(cap, mw) ==
    IF cap
    THEN IF mw THEN "multi_tensor_adam_capturable_master"
         ELSE "multi_tensor_adam_capturable"
    ELSE "multi_tensor_adam"

\* The tensor lists handed to the kernel for a bucket.
KernelLists(b, cap, mw) ==
    IF cap /\ mw THEN << b.g, b.p, b.m, b.v, b.master >>
    ELSE << b.g, b.p, b.m, b.v >>

\* Whether a bucket is launched.
Launches(b) == Len(b.g) > 0

\* found_inf read for the first device whatever the group's device.
FoundInf_FirstDevice(scaler, device) ==
    IF scaler.some THEN scaler.found_inf["cuda:0"] ELSE 0

\* found_inf as step() obtains it for a group.
FoundInf(scaler, device) ==
    IF scaler.some THEN scaler.found_inf[device] ELSE 0

\* Fractions << numerator, denominator >> stand for the float scale factors.
Reciprocal(x) == << x[2], x[1] >>

\* inv_scale as step() computes it.
InvScale(scaler) ==
    IF scaler.some THEN Reciprocal(<< scaler.scale, 1 >>) ELSE << 1, 1 >>

\* The launch event of bucket name bn of group gi.
LaunchEvent(gi, group, bn, b, cap, mw, buf, inv) ==
    [ev |-> "launch", group |-> gi, bucket |-> bn, fn |-> KernelFor(cap, mw),
     buf |-> buf, lists |-> KernelLists(b, cap, mw), lr |-> group.lr,
     beta1 |-> group.beta1, beta2 |-> group.beta2, eps |-> group.eps,
     step |-> group.step, adam_w_mode |-> adam_w_mode,
     bias_correction |-> BiasFlag(group),
     weight_decay |-> group.weight_decay,
     inv_scale |-> IF cap THEN inv ELSE << >>]

\* The launches of a group, in the order float16, bfloat16, float32.
RECURSIVE GroupLaunches(_, _, _, _, _, _, _, _)
GroupLaunches(i, gi, group, bk, cap, mw, buf, inv) ==
    IF i > Len(BucketNames) THEN << >>
    ELSE LET bn == BucketNames[i]
             rest == GroupLaunches(i + 1, gi, group, bk, cap, mw, buf, inv)
         IN IF Launches(bk[bn])
            THEN << LaunchEvent(gi, group, bn, bk[bn], cap, mw, buf, inv) >>
                 \o rest
            ELSE rest

\* The parameters held by the buckets of a group.
BucketParams(bk) ==
    UNION { { bk[bn].p[k].p : k \in 1 .. Len(bk[bn].p) } : bn \in DOMAIN bk }

\* A kernel updates in place the moment buffers it is handed.
MarkDirty(st, ps) ==
    [p \in Params |->
        IF p \in ps
        THEN [st[p] EXCEPT !.exp_avg.content = "data",
                           !.exp_avg_sq.content = "data"]
        ELSE st[p]]

\* The gradient-scaler part of a group's turn in capturable mode: the events
\* before the launches.
ScalerEvents(gi, scaler, device) ==
    (IF scaler.some
     THEN << [ev |-> "check_inf", group |-> gi, device |-> device] >>
     ELSE << >>)
    \o << [ev |-> "buf_write", group |-> gi, val |-> FoundInf(scaler, device)] >>
    \o (IF scaler.some THEN << [ev |-> "get_scale", group |-> gi] >> ELSE << >>)
    \o << [ev |-> "scales", group |-> gi,
           scale |-> IF scaler.some THEN << scaler.scale, 1 >> ELSE << 1, 1 >>,
           inv_scale |-> InvScale(scaler)] >>

\* The events of a group's turn that precede its launches.
PreLaunchEvents(gi, scaler, device, cap) ==
    IF cap THEN ScalerEvents(gi, scaler, device) ELSE << >>

\* The overflow buffer after the pre-launch part of a group's turn.
BufAfter(buf, scaler, device, cap) ==
    IF cap THEN FoundInf(scaler, device) ELSE buf

\* One iteration of the loop over the param groups.  acc: the param groups
\* (pg), the state dicts (st), the overflow buffer (buf), the trace (tr),
\* the parameters processed (seen) and the error raised, if any (err).
StepGroup(acc, gi, masters, grads, scaler) ==
    IF acc.err # "" \/ Len(acc.pg[gi].params) = 0 THEN acc
    ELSE
    LET cap == capturable
        mw == master_weights
        device == pdevice[acc.pg[gi].params[1]]
        group == [acc.pg[gi] EXCEPT
                     !.step = NextStep(@, cap, acc.buf, device),
                     !.lr = StepLr(@, cap, device)]
        pg1 == [acc.pg EXCEPT ![gi] = group]
        ga == Gather([st |-> acc.st, bk |-> EmptyBuckets, seen |-> acc.seen,
                      err |-> ""],
                     group.params, masters[gi], 1, grads, mw)
    IN IF ga.err # ""
       THEN [acc EXCEPT !.pg = pg1, !.st = ga.st, !.seen = ga.seen,
                        !.err = ga.err,
                        !.tr = Append(acc.tr, [ev |-> "raise", group |-> gi,
                                               what |-> ga.err])]
       ELSE LET buf1 == BufAfter(acc.buf, scaler, device, cap)
                inv == IF cap THEN InvScale(scaler) ELSE << >>
            IN [acc EXCEPT
                   !.pg = pg1,
                   !.st = MarkDirty(ga.st, BucketParams(ga.bk)),
                   !.seen = ga.seen,
                   !.buf = buf1,
                   !.tr = acc.tr \o PreLaunchEvents(gi, scaler, device, cap)
                          \o GroupLaunches(1, gi, group, ga.bk, cap, mw, buf1, inv)]

RECURSIVE StepGroups(_, _, _, _, _)
StepGroups(acc, gi, masters, grads, scaler) ==
    IF gi > Len(acc.pg) THEN acc
    ELSE StepGroups(StepGroup(acc, gi, masters, grads, scaler), gi + 1,
                    masters, grads, scaler)

\* The events before the loop over the groups.
ClosureEvents(closure) ==
    IF closure THEN << [ev |-> "closure"] >> ELSE << >>

\* step() raising on a deprecated argument: dep is the set of the
\* deprecated arguments that are not None.
StepDeprecated(dep, closures) ==
    \E closure \in closures :
        /\ call' = [NoCall EXCEPT !.op = "step",
                                  !.raised = "RuntimeError:deprecated",
                                  !.deprecated = dep, !.closure = closure]
        /\ trace' = << >>
        /\ UNCHANGED << param_groups, pstate, param_groups_master,
                        dummy_overflow_buf, hist >>

\* step() past the check of the deprecated arguments.
StepRun(dep, closures, scalers) ==
    \E closure \in closures, scaler \in scalers, grads \in GradChoices :
        LET masters == IF param_groups_master.made THEN param_groups_master
                       ELSE MakeMaster(param_groups, master_weights)
        IN \E res \in { StepGroups([pg |-> param_groups, st |-> pstate,
                                     buf |-> dummy_overflow_buf,
                                     tr |-> ClosureEvents(closure),
                                     seen |-> {}, err |-> ""],
                                    1, masters.groups, grads, scaler) } :
           /\ call' = [NoCall EXCEPT !.op = "step", !.raised = res.err,
                                     !.deprecated = dep, !.closure = closure,
                                     !.scaler = scaler, !.grads = grads]
           /\ trace' = res.tr
           /\ param_groups' = res.pg
           /\ pstate' = res.st
           /\ param_groups_master' = masters
           /\ dummy_overflow_buf' = res.buf
           /\ hist' = [hist EXCEPT
                  !.ok_steps = IF res.err = "" /\ ~hist.loaded THEN @ + 1 ELSE @,
                  !.failed = @ \/ (res.err # "" /\ ~hist.loaded),
                  !.seen = @ \cup res.seen,
                  !.seen_since_load = @ \cup res.seen]

\* step() called with closure drawn from closures (FALSE: None) and
\* grad_scaler drawn from scalers.
StepOf(closures, scalers) ==
    /\ phase = "ready"
    /\ \A i \in 1 .. Len(param_groups) : param_groups[i].step.val < MaxStep
    /\ hist.ok_steps < MaxStep
    /\ \E dep \in DeprecatedChoices :
          IF DeprecatedError(dep) THEN StepDeprecated(dep, closures)
          ELSE StepRun(dep, closures, scalers)
    /\ UNCHANGED << phase, ctor, capturable, master_weights, adam_w_mode, pdtype >>

----------------------------------------------------------------------------
(* load_state_dict() *)

\* A tensor cast to a dtype.
CastTo(buf, dt) == [buf EXCEPT !.dtype = dt]

\* The step entry of a group as the checkpoint holds it.
CkptStep(ck, group) ==
    IF ck.step = 0 \/ Len(group.params) = 0 THEN NoneStep
    ELSE IF ck.from_capturable THEN TensorStep(ck.step, "cpu")
    ELSE IntStep(ck.step)

\* The lr entry of a group as the checkpoint holds it.
CkptLr(ck, group) ==
    IF ck.from_capturable /\ Len(group.params) > 0
    THEN TensorLr(group.lr.val, "cpu")
    ELSE FloatLr(group.lr.val)

\* Optimizer.load_state_dict of the base class (torch.optim.Optimizer): the
\* groups take the entries of the checkpoint and keep their parameters;
\* the state is replaced by the checkpoint's, every tensor cast to the
\* dtype of its parameter.  The checkpoint is one of an optimizer over the
\* same groups: its hyperparameters are those of the groups, its moments
\* were saved in float32.
BaseLoadGroup(ck, group) ==
    [group EXCEPT !.step = CkptStep(ck, group), !.lr = CkptLr(ck, group)]

BaseLoadState(ck, p) ==
    IF p \in ck.moments
    THEN [keys |-> {"exp_avg", "exp_avg_sq"},
          exp_avg |-> CastTo(Buf("float32", "data"), pdtype[p]),
          exp_avg_sq |-> CastTo(Buf("float32", "data"), pdtype[p])]
    ELSE EmptyState

\* group["lr"] after load_state_dict.
LoadLr(lr, cap) == IF cap THEN TensorLr(lr.val, "cuda:0") ELSE lr

\* A load_state_dict that leaves a step tensor of the checkpoint as it is.
LoadStep_KeepTensor(step, cap, rb) ==
    IF step.kind = "none" THEN step
    ELSE IF cap
         THEN TensorStep(IF rb[1] = 0 THEN step.val ELSE rb[2], "cuda:0")
         ELSE step

\* group["step"] after load_state_dict: rb is << rank, step held by rank 0 >>.
LoadStep(step, cap, rb) ==
    IF step.kind = "none" THEN step
    ELSE IF cap
         THEN TensorStep(IF rb[1] = 0 THEN step.val ELSE rb[2], "cuda:0")
         ELSE IF step.kind = "tensor" THEN IntStep(step.val) ELSE step

\* The moments of a parameter after load_state_dict.
LoadMoments(st) ==
    IF "exp_avg" \in st.keys
    THEN [st EXCEPT !.exp_avg = CastTo(@, "float32"),
                    !.exp_avg_sq = CastTo(@, "float32")]
    ELSE st

LoadStateDict ==
    /\ phase = "ready"
    /\ \E ck \in Checkpoints,
          rb \in (IF capturable THEN RankInputs ELSE { << 0, 0 >> }) :
        /\ param_groups' =
               [i \in 1 .. Len(param_groups) |->
                   LET g == BaseLoadGroup(ck, param_groups[i])
                   IN [g EXCEPT !.lr = LoadLr(@, capturable),
                                !.step = LoadStep(@, capturable, rb)]]
        /\ pstate' = [p \in Params |-> LoadMoments(BaseLoadState(ck, p))]
        /\ call' = [NoCall EXCEPT !.op = "load", !.ckpt = ck, !.rank = rb[1]]
        /\ trace' = << >>
        /\ hist' = [hist EXCEPT !.ok_steps = 0, !.failed = FALSE,
                                !.loaded = TRUE, !.seen_since_load = {}]
    /\ UNCHANGED << phase, ctor, capturable, master_weights, adam_w_mode,
                    pdtype, param_groups_master, dummy_overflow_buf >>

----------------------------------------------------------------------------
Init ==
    /\ phase = "new"
    /\ ctor = [amsgrad |-> FALSE, capturable |-> FALSE, master_weights |-> FALSE,
               available |-> FALSE, adam_w_mode |-> FALSE]
    /\ capturable = FALSE
    /\ master_weights = FALSE
    /\ adam_w_mode = 0
    /\ param_groups = << >>
    /\ pstate = [p \in Params |-> EmptyState]
    /\ param_groups_master = [made |-> FALSE, groups |-> << >>]
    /\ dummy_overflow_buf = 0
    /\ pdtype = [p \in Params |-> "float32"]
    /\ call = NoCall
    /\ trace = << >>
    /\ hist = NoHist

\* The optimizer under every constructor and step() argument.
Construct == ConstructOf(BOOLEAN)

Step == StepOf(BOOLEAN, GradScalers)

Next == Construct \/ Step

Spec == Init /\ [][Next]_vars

\* The optimizer with checkpoints loaded between the steps; step() is called
\* without closure and without grad_scaler.
ConstructDefault == ConstructOf({TRUE})

StepPlain == StepOf({FALSE}, {NoScaler})

NextLoad == ConstructDefault \/ StepPlain \/ LoadStateDict

SpecLoad == Init /\ [][NextLoad]_vars

----------------------------------------------------------------------------
(* Properties *)

\* The events of the given kind in the trace of the last call.
EventsOf(kind) == { i \in 1 .. Len(trace) : trace[i].ev = kind }

\* C1: the constructor raises RuntimeError exactly when amsgrad is true,
\* master_weights is true without capturable, or the CUDA extension is
\* unavailable; every constructed optimizer has master_weights => capturable.
C1_ConstructorRejectsUnsupported ==
    LET unsupported == \/ ctor.amsgrad
                       \/ (ctor.master_weights /\ ~ctor.capturable)
                       \/ ~ctor.available
    IN /\ phase = "ctor_error" =>
             /\ unsupported
             /\ call.raised \in {"RuntimeError:amsgrad",
                                 "RuntimeError:master_weights",
                                 "RuntimeError:cuda_ext"}
       /\ phase = "ready" =>
             /\ ~unsupported
             /\ master_weights = ctor.master_weights
             /\ capturable = ctor.capturable
             /\ master_weights => capturable

\* C1 witness: a construction with master_weights and without capturable,
\* everything else supported, has raised.
C1_Witness ==
    /\ phase = "ctor_error"
    /\ ctor.master_weights /\ ~ctor.capturable
    /\ ~ctor.amsgrad /\ ctor.available
    /\ call.raised = "RuntimeError:master_weights"

\* C2: a step() call with any deprecated argument set raises RuntimeError
\* before the closure runs and leaves the optimizer as it was: no event in
\* its trace, no change of the groups, the state, the master weights or the
\* overflow buffer.  A call with none of them set, with or without
\* grad_scaler, does not raise this error.
C2_DeprecatedArgsRaiseFirst ==
    [][ call'.op = "step" =>
          IF call'.deprecated # {}
          THEN /\ call'.raised = "RuntimeError:deprecated"
               /\ trace' = << >>
               /\ UNCHANGED << param_groups, pstate, param_groups_master,
                               dummy_overflow_buf >>
          ELSE call'.raised # "RuntimeError:deprecated" ]_vars

\* C2 witness: a call with scale and a closure has raised, the closure not
\* called.
C2_Witness ==
    /\ call.op = "step"
    /\ call.deprecated = {"scale"}
    /\ call.closure
    /\ call.raised = "RuntimeError:deprecated"
    /\ EventsOf("closure") = {}

\* The last call was a step() that got past the deprecated-argument check.
StepRan == call.op = "step" /\ call.deprecated = {}

GroupIds == 1 .. Len(param_groups)

ParamsOf(gi) ==
    { param_groups[gi].params[k] : k \in 1 .. Len(param_groups[gi].params) }

\* The parameters of a group that make step() raise, given the gradients
\* of the last call.
Offending(gi) ==
    { p \in ParamsOf(gi) :
        \/ call.grads[p] = "sparse"
        \/ /\ call.grads[p] = "dense"
           /\ pdtype[p] \notin {"float16", "bfloat16", "float32"} }

\* The first group with an offending parameter; 0 when there is none.
FirstBad ==
    IF \E gi \in GroupIds : Offending(gi) # {}
    THEN CHOOSE gi \in GroupIds :
            /\ Offending(gi) # {}
            /\ \A gj \in GroupIds : Offending(gj) # {} => gi <= gj
    ELSE 0

\* The groups whose turn in the last step() went through to the launches.
Completed(gi) ==
    /\ ParamsOf(gi) # {}
    /\ FirstBad = 0 \/ gi < FirstBad

LaunchesOfGroup(gi) == { i \in EventsOf("launch") : trace[i].group = gi }

\* Where a parameter stands in the lists handed to the kernels.
Positions(p) ==
    { ik \in EventsOf("launch") \X (1 .. Cardinality(Params)) :
        /\ ik[2] <= Len(trace[ik[1]].lists[2])
        /\ trace[ik[1]].lists[2][ik[2]].p = p }

\* C3: in a step(), every parameter with a gradient of a group that goes
\* through stands in exactly one bucket, the one of its dtype, with its
\* gradient, exp_avg, exp_avg_sq (and master copy, when master_weights is
\* on) at the same index of the parallel lists; a parameter without
\* gradient stands in none; a sparse gradient or a dtype other than
\* float16, bfloat16 and float32 makes step() raise RuntimeError with no
\* kernel launched for the group.
C3_BucketsByPrecision ==
    StepRan =>
      /\ (call.raised # "") = (FirstBad # 0)
      /\ call.raised \in {"", "RuntimeError:sparse", "RuntimeError:dtype"}
      /\ FirstBad # 0 => LaunchesOfGroup(FirstBad) = {}
      /\ \A gi \in GroupIds : \A p \in ParamsOf(gi) :
            IF Completed(gi) /\ call.grads[p] = "dense"
            THEN /\ Cardinality(Positions(p)) = 1
                 /\ \A ik \in Positions(p) :
                      LET e == trace[ik[1]]
                          k == ik[2]
                      IN /\ e.group = gi
                         /\ e.bucket = pdtype[p]
                         /\ \A n \in 1 .. Len(e.lists) :
                               Len(e.lists[n]) = Len(e.lists[1])
                         /\ e.lists[1][k].t = "grad" /\ e.lists[1][k].p = p
                         /\ e.lists[2][k].t = "param"
                         /\ e.lists[3][k].t = "exp_avg" /\ e.lists[3][k].p = p
                         /\ e.lists[4][k].t = "exp_avg_sq" /\ e.lists[4][k].p = p
                         /\ master_weights =>
                               /\ Len(e.lists) = 5
                               /\ e.lists[5][k].t = "master"
                               /\ e.lists[5][k].p = p
            ELSE Positions(p) = {}

\* C3 witness: with master weights on, a bucket holding two parameters was
\* handed to a kernel while a step() raised on a sparse gradient in a later
\* group.
C3_Witness ==
    /\ StepRan
    /\ master_weights
    /\ call.raised = "RuntimeError:sparse"
    /\ \E i \in EventsOf("launch") : Len(trace[i].lists[1]) = 2

\* C4: the entry point follows the flags (multi_tensor_adam when not
\* capturable, multi_tensor_adam_capturable with 4 lists and inv_scale when
\* capturable without master weights, multi_tensor_adam_capturable_master
\* with the master weights as fifth list and inv_scale when both); a group
\* has one launch per non-empty bucket and none for an empty one; every
\* launch gets the hyperparameters and step of its group and the
\* optimizer's adam_w_mode.
C4_DispatchByFlags ==
    StepRan =>
      /\ \A i \in EventsOf("launch") :
            LET e == trace[i]
                g == param_groups[e.group]
            IN /\ e.fn = IF ~capturable THEN "multi_tensor_adam"
                         ELSE IF master_weights
                              THEN "multi_tensor_adam_capturable_master"
                              ELSE "multi_tensor_adam_capturable"
               /\ Len(e.lists) = IF capturable /\ master_weights THEN 5 ELSE 4
               /\ capturable /\ master_weights =>
                     \A k \in 1 .. Len(e.lists[5]) : e.lists[5][k].t = "master"
               /\ Len(e.inv_scale) = IF capturable THEN 2 ELSE 0
               /\ e.lr = g.lr /\ e.beta1 = g.beta1 /\ e.beta2 = g.beta2
               /\ e.eps = g.eps /\ e.step = g.step
               /\ e.weight_decay = g.weight_decay
               /\ e.bias_correction = 1 <=> g.bias_correction
               /\ e.bias_correction \in {0, 1}
               /\ e.adam_w_mode = adam_w_mode
               /\ adam_w_mode = IF ctor.adam_w_mode THEN 1 ELSE 0
      /\ \A gi \in GroupIds : \A b \in {"float16", "bfloat16", "float32"} :
            Cardinality({ i \in LaunchesOfGroup(gi) : trace[i].bucket = b })
              = IF /\ Completed(gi)
                   /\ \E p \in ParamsOf(gi) :
                         call.grads[p] = "dense" /\ pdtype[p] = b
                THEN 1 ELSE 0

\* C4 witness: a group launched two buckets through the master-weights
\* entry point.
C4_Witness ==
    /\ StepRan
    /\ \E i, j \in EventsOf("launch") :
          /\ trace[i].group = trace[j].group
          /\ trace[i].bucket # trace[j].bucket
          /\ trace[i].fn = "multi_tensor_adam_capturable_master"
          /\ Len(trace[i].lists) = 5

\* The device of a group: that of its first parameter.
DeviceOf(gi) == pdevice[param_groups[gi].params[1]]

EventsOfGroup(kind, gi) == { i \in EventsOf(kind) : trace[i].group = gi }

\* C5: when capturable, every group that goes through has, before its
\* launches and after those of the groups before it, the overflow buffer
\* overwritten with the scaler's found_inf of the group's device, and its
\* kernels get the reciprocal of the scaler's scale; without grad_scaler the
\* buffer is set to 0 and scale and inv_scale are 1.  When not capturable
\* the scaler is not consulted and the buffer is not written.
C5_ScalerInteraction ==
    StepRan =>
      IF capturable
      THEN \A gi \in GroupIds : Completed(gi) =>
             /\ Cardinality(EventsOfGroup("buf_write", gi)) = 1
             /\ Cardinality(EventsOfGroup("scales", gi)) = 1
             /\ \A w \in EventsOfGroup("buf_write", gi) :
                   /\ trace[w].val = IF call.scaler.some
                                     THEN call.scaler.found_inf[DeviceOf(gi)]
                                     ELSE 0
                   /\ \A i \in LaunchesOfGroup(gi) :
                         w < i /\ trace[i].buf = trace[w].val
                   /\ \A i \in EventsOf("launch") :
                         trace[i].group < gi => i < w
             /\ \A c \in EventsOfGroup("scales", gi) :
                   /\ IF call.scaler.some
                      THEN /\ trace[c].scale = << call.scaler.scale, 1 >>
                           /\ trace[c].inv_scale[1] * call.scaler.scale
                                = trace[c].inv_scale[2]
                      ELSE /\ trace[c].scale = << 1, 1 >>
                           /\ trace[c].inv_scale = << 1, 1 >>
                   /\ \A i \in LaunchesOfGroup(gi) :
                         c < i /\ trace[i].inv_scale = trace[c].inv_scale
      ELSE /\ EventsOf("check_inf") = {} /\ EventsOf("get_scale") = {}
           /\ EventsOf("buf_write") = {} /\ EventsOf("scales") = {}
           /\ dummy_overflow_buf = 0

\* C5 witness: a capturable step() with a scaler launched a kernel for the
\* group on the second device with the overflow flag of that device set and
\* inv_scale 1/2.
C5_Witness ==
    /\ StepRan /\ capturable /\ call.scaler.some
    /\ \E i \in EventsOf("launch") :
          /\ DeviceOf(trace[i].group) = "cuda:1"
          /\ trace[i].buf = 1
          /\ trace[i].inv_scale = << 1, 2 >>

HasMoments(p) == pstate[p].keys = {"exp_avg", "exp_avg_sq"}

MomentsFloat32(p) ==
    /\ pstate[p].exp_avg.dtype = "float32"
    /\ pstate[p].exp_avg_sq.dtype = "float32"

\* C6 as stated: after any sequence of step() and load_state_dict() calls,
\* every parameter that has taken part in a step with a gradient has both
\* exp_avg and exp_avg_sq in its state, in float32.
C6_SeenParamsHaveMoments ==
    \A p \in hist.seen : HasMoments(p) /\ MomentsFloat32(p)

\* The state dicts hold both moments or nothing, the moments are float32
\* whatever the dtype of the parameter, and every parameter processed with a
\* gradient since the last load_state_dict has them.
C6_MomentsInv ==
    \A p \in Params :
        /\ pstate[p].keys \in { {}, {"exp_avg", "exp_avg_sq"} }
        /\ p \in hist.seen_since_load => HasMoments(p)
        /\ HasMoments(p) => MomentsFloat32(p)

\* What a step() does to the moments: it keeps those it finds and hands
\* them to the kernels as they were, creates the missing ones as zeros for
\* parameters with a gradient only, and leaves the state of a parameter
\* without gradient alone.
C6_StepKeepsMoments ==
    call'.op = "step" =>
      \A p \in Params :
        /\ HasMoments(p) =>
              /\ HasMoments(p)'
              /\ pstate[p].exp_avg.content = "data" =>
                    /\ pstate'[p].exp_avg.content = "data"
                    /\ pstate'[p].exp_avg_sq.content = "data"
              /\ \A ik \in Positions(p)' :
                    /\ trace'[ik[1]].lists[3][ik[2]].content
                         = pstate[p].exp_avg.content
                    /\ trace'[ik[1]].lists[4][ik[2]].content
                         = pstate[p].exp_avg_sq.content
        /\ ~HasMoments(p) /\ HasMoments(p)' =>
              /\ call'.grads[p] = "dense"
              /\ p \in hist'.seen_since_load
              /\ \A ik \in Positions(p)' :
                    /\ trace'[ik[1]].lists[3][ik[2]].content = "zeros"
                    /\ trace'[ik[1]].lists[4][ik[2]].content = "zeros"
              /\ Positions(p)' = {} =>
                    /\ pstate'[p].exp_avg.content = "zeros"
                    /\ pstate'[p].exp_avg_sq.content = "zeros"
        /\ call'.grads[p] = "None" => pstate'[p] = pstate[p]

\* C6, amended: after any sequence of step() and load_state_dict() calls,
\* every parameter that has taken part in a step with a gradient since the
\* last load_state_dict (since construction, if there was none) has both
\* exp_avg and exp_avg_sq; moments in the state are float32 whatever the
\* parameter's dtype, loaded ones included; they are created as zeros when
\* the parameter is seen with a gradient and empty state, a step() never
\* re-initializes moments the state holds and creates none for a parameter
\* whose grad is None.
C6_MomentsSinceLoad ==
    [] C6_MomentsInv /\ [][C6_StepKeepsMoments]_vars

\* C6 witness: after a load_state_dict, a step() has processed a parameter
\* that is not float32 and whose state the checkpoint left empty; it holds
\* float32 moments.
C6_Witness ==
    /\ hist.loaded /\ call.op = "step"
    /\ \E p \in hist.seen_since_load :
          /\ pdtype[p] = "bfloat16"
          /\ HasMoments(p) /\ MomentsFloat32(p)
          /\ Positions(p) # {}
          /\ \A ik \in Positions(p) :
                trace[ik[1]].lists[3][ik[2]].content = "zeros"

\* The step counters of an optimizer that is not capturable: plain numbers;
\* equal to the number of step() calls, all of which returned, in every
\* group with parameters of an optimizer that never loaded a checkpoint,
\* and absent from groups without parameters; the loaded value, as a
\* number, right after load_state_dict.
C7_CounterInv ==
    phase = "ready" /\ ~capturable =>
      \A gi \in GroupIds :
        LET step == param_groups[gi].step IN
        /\ step.kind # "tensor"
        /\ ~hist.loaded /\ ParamsOf(gi) = {} => step = NoneStep
        /\ ~hist.loaded /\ ~hist.failed /\ ParamsOf(gi) # {} =>
              step = IF hist.ok_steps = 0 THEN NoneStep
                     ELSE IntStep(hist.ok_steps)
        /\ call.op = "load" /\ ParamsOf(gi) # {} =>
              step = IF call.ckpt.step = 0 THEN NoneStep
                     ELSE IntStep(call.ckpt.step)

\* A step() that returns advances by one the counter of every group with
\* parameters, whether its parameters have gradients or not, and leaves a
\* group without parameters alone.
C7_CounterAdvances ==
    call'.op = "step" /\ call'.deprecated = {} /\ call'.raised = ""
      /\ ~capturable =>
        \A gi \in GroupIds :
          IF ParamsOf(gi) = {}
          THEN param_groups'[gi].step = param_groups[gi].step
          ELSE param_groups'[gi].step = IntStep(param_groups[gi].step.val + 1)

====
